---------------------------- MODULE Spec2Model ----------------------------
(***************************************************************************)
(* The configuration core of the chatbot backend:                          *)
(*   backend/api/core/config_manager.py  (ConfigManager)                   *)
(*   backend/api/core/config_models.py   (the schema, ChatbotConfig)       *)
(*   backend/api/core/config_watcher.py  (ConfigWatcher, ConfigUpdater)    *)
(*                                                                         *)
(* Python values are records [t, n, s, l]: t is the run-time type, n the   *)
(* number (a float is kept in tenths, a bool as 0 or 1), s the characters  *)
(* of a str, l the items of a list of str.  Times are in tenths of a       *)
(* second.                                                                 *)
(***************************************************************************)
EXTENDS Integers, Sequences, FiniteSets, TLC

VARIABLES
    config,          \* ConfigManager.config: the live tree, (section, field) -> value
    file,            \* the content of the file at ConfigManager.config_path
    change_history,  \* ConfigManager.change_history
    subscribers,     \* ConfigManager.subscribers: key -> list of callbacks
    now,             \* time.time()
    nops,            \* number of calls made so far (bounds the run)
    last,            \* the last call: its arguments and its result
    prev,            \* the call before the last one, in brief
    log,             \* every ConfigChange ever appended, with the tree after it
    loaded,          \* the tree the constructor loaded
    env,             \* os.environ: the mapped environment variables
    is_watching,     \* ConfigWatcher.is_watching
    timer,           \* ConfigWatcher.timer: the debounce timer
    u_config,        \* ConfigUpdater.config_manager.config
    u_history,       \* ConfigUpdater.change_history
    events,          \* every call of ConfigWatcher._on_file_changed: path and time
    callbacks,       \* every call of the watcher's callback: path, time, is_watching
    saving,          \* the save_config call that has opened the file and not yet written it
    lock,            \* ConfigUpdater.lock: the owner of the RLock and its depth
    pc,              \* where each thread is in its ConfigUpdater operation
    frame,            \* the operation of each thread: arguments and local variables
    backup_config,   \* ConfigUpdater.backup_config
    backup_owner,    \* the operation that assigned backup_config last
    acquired,        \* the operations, in the order they acquired the lock
    appends,         \* for every entry appended to u_history, its operation
    u_subscribers    \* ConfigUpdater.subscribers

manager_vars == <<config, file, change_history, subscribers, now, nops, last, prev, log, loaded, env>>

lock_vars == <<lock, pc, frame, backup_config, backup_owner, acquired, appends, u_subscribers>>

watcher_vars == <<is_watching, timer, u_config, u_history, events, callbacks, saving, lock_vars>>

vars == <<manager_vars, watcher_vars>>

-----------------------------------------------------------------------------
(* Bounds of the model *)

MaxOps == 2
MaxTime == 2
MaxSubs == 2
MaxEvents == 3
MaxClock == 31
MaxLimit == 2

-----------------------------------------------------------------------------
(* Python values *)

Int_(k) == [t |-> "int", n |-> k, s |-> <<>>, l |-> <<>>]
Float_(k) == [t |-> "float", n |-> k, s |-> <<>>, l |-> <<>>]
Bool_(b) == [t |-> "bool", n |-> IF b THEN 1 ELSE 0, s |-> <<>>, l |-> <<>>]
Str_(cs) == [t |-> "str", n |-> 0, s |-> cs, l |-> <<>>]
List_(xs) == [t |-> "list", n |-> 0, s |-> <<>>, l |-> xs]
None == [t |-> "none", n |-> 0, s |-> <<>>, l |-> <<>>]
\* a key that a TOML document does not hold (not a Python value)
Missing == [t |-> "missing", n |-> 0, s |-> <<>>, l |-> <<>>]

IsNumber(v) == v.t \in {"int", "float", "bool"}

\* the numeric value of an int, float or bool, in tenths
Num(v) == IF v.t = "float" THEN v.n ELSE v.n * 10

\* Python's ==  on the values of the model
PyEq(a, b) ==
    IF IsNumber(a) /\ IsNumber(b) THEN Num(a) = Num(b)
    ELSE /\ a.t = b.t
         /\ a.s = b.s
         /\ a.l = b.l

-----------------------------------------------------------------------------
(* Text: a str is the sequence of its characters *)

Digits == <<"0", "1", "2", "3", "4", "5", "6", "7", "8", "9">>

IsDigit(c) == \E i \in 1..10 : Digits[i] = c

DigitVal(c) == (CHOOSE i \in 1..10 : Digits[i] = c) - 1

IsSpace(c) == c \in {" ", "\t", "\n"}

RECURSIVE LStrip(_)
LStrip(cs) ==
    IF cs # <<>> /\ IsSpace(Head(cs)) THEN LStrip(Tail(cs)) ELSE cs

RECURSIVE RStrip(_)
RStrip(cs) ==
    IF cs # <<>> /\ IsSpace(cs[Len(cs)]) THEN RStrip(SubSeq(cs, 1, Len(cs) - 1)) ELSE cs

\* str.strip()
Strip(cs) == RStrip(LStrip(cs))

LowerChar(c) ==
    CASE c = "O" -> "o"
      [] c = "N" -> "n"
      [] c = "T" -> "t"
      [] c = "R" -> "r"
      [] c = "U" -> "u"
      [] c = "E" -> "e"
      [] c = "Y" -> "y"
      [] c = "S" -> "s"
      [] OTHER -> c

\* str.lower()
Lower(cs) == [i \in 1..Len(cs) |-> LowerChar(cs[i])]

AllDigits(cs) == cs # <<>> /\ \A i \in 1..Len(cs) : IsDigit(cs[i])

RECURSIVE DigitsVal(_)
DigitsVal(cs) ==
    IF cs = <<>> THEN 0
    ELSE DigitsVal(SubSeq(cs, 1, Len(cs) - 1)) * 10 + DigitVal(cs[Len(cs)])

Err == [ok |-> FALSE, val |-> None]
Ok(v) == [ok |-> TRUE, val |-> v]

\* the sign and the unsigned rest of a numeric text
Sign(cs) == IF cs # <<>> /\ Head(cs) = "-" THEN -1 ELSE 1
Unsigned(cs) == IF cs # <<>> /\ Head(cs) \in {"-", "+"} THEN Tail(cs) ELSE cs

\* int(text): surrounding whitespace is ignored, then an optional sign and digits
ParseInt(cs) ==
    LET body == Unsigned(Strip(cs))
    IN  IF AllDigits(body) THEN Ok(Int_(Sign(Strip(cs)) * DigitsVal(body))) ELSE Err

DotAt(cs) == IF \E i \in 1..Len(cs) : cs[i] = "."
             THEN CHOOSE i \in 1..Len(cs) : cs[i] = "." /\ \A j \in 1..(i - 1) : cs[j] # "."
             ELSE 0

\* float(text), for texts with at most one digit after the point (the value
\* is kept in tenths): "1.5" is 15, "5." is 50, ".5" is 5, "3" is 30
ParseFloat(cs) ==
    LET txt == Strip(cs)
        body == Unsigned(txt)
        d == DotAt(body)
        ip == IF d = 0 THEN body ELSE SubSeq(body, 1, d - 1)
        fp == IF d = 0 THEN <<>> ELSE SubSeq(body, d + 1, Len(body))
    IN  IF /\ (ip = <<>> \/ AllDigits(ip))
           /\ (fp = <<>> \/ (AllDigits(fp) /\ Len(fp) = 1))
           /\ (ip # <<>> \/ fp # <<>>)
        THEN Ok(Float_(Sign(txt) * (DigitsVal(ip) * 10 + DigitsVal(fp))))
        ELSE Err


\* json.loads(text) for the JSON documents of the model: a number, or an array
\* of strings that hold no quote, comma or bracket; any other text raises
IsJsonString(cs) ==
    /\ Len(cs) >= 2
    /\ cs[1] = "\"" /\ cs[Len(cs)] = "\""
    /\ \A i \in 2..(Len(cs) - 1) : cs[i] \notin {"\"", ",", "[", "]"}

CommaAt(cs) == IF \E i \in 1..Len(cs) : cs[i] = ","
               THEN CHOOSE i \in 1..Len(cs) : cs[i] = "," /\ \A j \in 1..(i - 1) : cs[j] # ","
               ELSE 0

RECURSIVE JsonItems(_)
JsonItems(cs) ==
    LET c == CommaAt(cs)
        first == Strip(IF c = 0 THEN cs ELSE SubSeq(cs, 1, c - 1))
        rest == IF c = 0 THEN Ok(List_(<<>>)) ELSE JsonItems(SubSeq(cs, c + 1, Len(cs)))
    IN  IF IsJsonString(first) /\ rest.ok
        THEN Ok(List_(<<SubSeq(first, 2, Len(first) - 1)>> \o rest.val.l))
        ELSE Err

JsonLoads(cs) ==
    LET txt == Strip(cs)
        inner == Strip(SubSeq(txt, 2, Len(txt) - 1))
    IN  IF Len(txt) >= 2 /\ txt[1] = "[" /\ txt[Len(txt)] = "]"
        THEN IF inner = <<>> THEN Ok(List_(<<>>)) ELSE JsonItems(inner)
        ELSE IF AllDigits(Unsigned(txt)) THEN ParseInt(txt)
        ELSE IF txt # <<>> /\ DotAt(txt) > 0 /\ DotAt(txt) < Len(txt) /\ DotAt(Unsigned(txt)) > 1
        THEN ParseFloat(txt)
        ELSE Err

-----------------------------------------------------------------------------
(* The schema: config_models.py.  The model keeps one field or more of     *)
(* every field type and of every kind of constraint.                       *)

F_temperature == <<"llm", "temperature">>
F_port == <<"backend", "port">>
F_reload == <<"backend", "reload">>
F_host == <<"qdrant", "host">>
F_provider == <<"embedding", "provider">>
F_fport == <<"frontend", "port">>
F_fhost == <<"frontend", "host">>
F_origins == <<"cors", "origins">>
F_api_key == <<"qdrant", "api_key">>
F_api_base == <<"llm", "api_base">>

\* the declared (section, field) pairs of the model
Fields ==
    {F_temperature, F_port, F_reload, F_host, F_provider, F_fport, F_fhost, F_origins,
     F_api_key, F_api_base}

\* pairs that the schema does not declare: an unknown field of a declared
\* section and an unknown section
U_field == <<"llm", "nosuch">>
U_section == <<"nosuch", "port">>
Undeclared == {U_field, U_section}

Keys == Fields \cup Undeclared

S_localhost == <<"l", "o", "c", "a", "l", "h", "o", "s", "t">>
S_ollama == <<"o", "l", "l", "a", "m", "a">>
S_openai == <<"o", "p", "e", "n", "a", "i">>
S_custom == <<"カ", "ス", "タ", "ム">>
S_origin3000 == <<"h", "t", "t", "p", ":", "/", "/", "l", "o", "c", "a", "l", "h", "o", "s", "t", ":", "3", "0", "0", "0">>
S_origin5173 == <<"h", "t", "t", "p", ":", "/", "/", "l", "o", "c", "a", "l", "h", "o", "s", "t", ":", "5", "1", "7", "3">>
S_httpPrefix == <<"h", "t", "t", "p", ":", "/", "/">>
\* PROVIDER_DEFAULTS["openai"]["api_base"]; llm.provider is "openai" throughout
S_openai_base == <<"h", "t", "t", "p", "s", ":", "/", "/", "a", "p", "i", ".", "o", "p", "e", "n", "a", "i", ".", "c", "o", "m", "/", "v", "1">>
S_ollama_base == <<"h", "t", "t", "p", ":", "/", "/", "l", "o", "c", "a", "l", "h", "o", "s", "t", ":", "1", "1", "4", "3", "4", "/", "v", "1">>

\* ChatbotConfig(): every field at its default
Defaults ==
    [k \in Fields |->
        CASE k = F_temperature -> Float_(7)
          [] k = F_port -> Int_(8000)
          [] k = F_reload -> Bool_(TRUE)
          [] k = F_host -> Str_(S_localhost)
          [] k = F_provider -> Str_(S_ollama)
          [] k = F_fport -> Int_(3000)
          [] k = F_fhost -> Str_(S_localhost)
          [] k = F_origins -> List_(<<S_origin3000, S_origin5173>>)
          [] k = F_api_key -> None
          [] k = F_api_base -> Str_(S_openai_base)]

\* the declared type of a field
FieldType(k) == IF k = F_api_key THEN "str" ELSE Defaults[k].t

\* Optional[...]: the field also takes None
Nullable(k) == k = F_api_key

\* Field(ge=..., le=...) and the field validators of one section
FieldConstraint(k, v) ==
    CASE k = F_temperature -> v.n >= 0 /\ v.n <= 20
      [] k \in {F_port, F_fport} -> v.n >= 1 /\ v.n <= 65535
      [] k = F_provider -> v.s \in {S_ollama, S_openai, S_custom}
      [] k = F_origins -> v.l # <<>>
      [] OTHER -> TRUE

\* what pydantic makes of an input for a field: the value of the declared
\* type, or a failure.  An int is accepted for a float field; the other
\* conversions of pydantic's lax mode are not modelled (such inputs fail).
FieldParse(k, v) ==
    IF v.t = FieldType(k) \/ (Nullable(k) /\ v.t = "none") THEN Ok(v)
    ELSE IF FieldType(k) = "float" /\ v.t = "int" THEN Ok(Float_(v.n * 10))
    ELSE Err

FieldValid(k, v) == FieldParse(k, v).ok /\ FieldConstraint(k, FieldParse(k, v).val)

RECURSIVE IntChars(_)
IntChars(k) ==
    IF k < 10 THEN <<Digits[k + 1]>> ELSE IntChars(k \div 10) \o <<Digits[(k % 10) + 1]>>

\* ChatbotConfig.validate_cors_with_frontend: frontend is validated before cors
validate_cors_with_frontend(t) ==
    LET frontend_url == S_httpPrefix \o t[F_fhost].s \o <<":">> \o IntChars(t[F_fport].n)
    IN  \E i \in 1..Len(t[F_origins].l) : t[F_origins].l[i] = frontend_url

\* ChatbotConfig.validate_backend_port: backend is validated before frontend,
\* so 'frontend' is not in values.data yet and the comparison is not made
validate_backend_port(t) ==
    LET frontend_in_values == FALSE
    IN  ~(frontend_in_values /\ t[F_port].n = t[F_fport].n)

\* LlmConfig.set_provider_defaults (mode='before') for provider "openai": an
\* api_base that is absent, empty or the local URL becomes the provider default
set_provider_defaults(data) ==
    [data EXCEPT ![F_api_base] =
        IF @ = Missing \/ (@.t = "str" /\ @.s \in {<<>>, S_ollama_base})
        THEN Str_(S_openai_base) ELSE @]

\* the fields of the input after the validators that run before the fields
BeforeValidators(data) == set_provider_defaults(data)

\* ChatbotConfig(**data): data maps every field to a value or to Missing
FromData(data0) ==
    LET data == BeforeValidators(data0)
        t == [k \in Fields |-> IF data[k] = Missing THEN Defaults[k]
                               ELSE IF FieldParse(k, data[k]).ok THEN FieldParse(k, data[k]).val
                               ELSE data[k]]
    IN  IF /\ \A k \in Fields : data[k] = Missing \/ FieldValid(k, data[k])
           /\ validate_backend_port(t)
           /\ validate_cors_with_frontend(t)
        THEN [ok |-> TRUE, tree |-> t]
        ELSE [ok |-> FALSE, tree |-> Defaults]

\* config.model_dump() followed by toml.dump: a None value is not written
TomlDump(t) == [k \in Fields |-> IF t[k].t = "none" THEN Missing ELSE t[k]]


-----------------------------------------------------------------------------
(* The file at config_path *)

EmptyDoc == [k \in Fields |-> Missing]

\* no file at the path
Absent == [kind |-> "absent", data |-> EmptyDoc]
\* a TOML document
Doc(d) == [kind |-> "toml", data |-> d]
\* what a write that failed after open(path, 'w') leaves: a truncated document
Truncated == [kind |-> "truncated", data |-> EmptyDoc]

\* the outcomes of open(path, 'w') followed by toml.dump
WriteOutcomes == {"ok", "fail_open", "fail_write"}

\* ConfigManager.save_config: the new file and the value returned
save_config(f, tree, w) ==
    CASE w = "ok" -> [file |-> Doc(TomlDump(tree)), ret |-> TRUE]
      [] w = "fail_open" -> [file |-> f, ret |-> FALSE]
      [] w = "fail_write" -> [file |-> Truncated, ret |-> FALSE]


-----------------------------------------------------------------------------
(* ConfigManager: values, history, subscribers *)

\* ConfigManager.get_value
get_value(c, k) == IF k \in Fields THEN c[k] ELSE None

\* int(x) of a number: a float is truncated towards zero
TruncTenths(n) == IF n >= 0 THEN n \div 10 ELSE -((-n) \div 10)

TrueTexts == {<<"t", "r", "u", "e">>, <<"1">>, <<"y", "e", "s">>, <<"o", "n">>}

\* the type conversion of set_value: field_type is the type of the current value
Coerce(cur, value) ==
    CASE cur.t = "bool" /\ value.t = "str" -> Ok(Bool_(Lower(value.s) \in TrueTexts))
      [] cur.t = "int" ->
            CASE value.t = "str" -> ParseInt(Strip(value.s))
              [] value.t = "float" -> Ok(Int_(TruncTenths(value.n)))
              [] value.t \in {"int", "bool"} -> Ok(Int_(value.n))
              [] OTHER -> Err
      [] cur.t = "float" ->
            CASE value.t = "str" -> ParseFloat(value.s)
              [] value.t = "float" -> Ok(value)
              [] value.t \in {"int", "bool"} -> Ok(Float_(value.n * 10))
              [] OTHER -> Err
      [] cur.t = "list" /\ value.t = "str" -> JsonLoads(value.s)
      [] cur.t = "str" -> IF value.t = "str" THEN Ok(Str_(Strip(value.s))) ELSE Err
      [] OTHER -> Ok(value)

\* env_mappings of _load_from_env, in the order of the dict
env_mappings ==
    << <<"QDRANT_HOST", F_host>>,
       <<"OPENAI_API_BASE", F_api_base>>,
       <<"OPENAI_TEMPERATURE", F_temperature>>,
       <<"EMBEDDING_PROVIDER", F_provider>>,
       <<"BACKEND_PORT", F_port>>,
       <<"BACKEND_RELOAD", F_reload>> >>

EnvVars == {env_mappings[i][1] : i \in 1..Len(env_mappings)}

\* os.getenv gives None for every variable
NoEnv == [v \in EnvVars |-> Missing]

\* the value of the i-th mapped variable, stripped and converted to the type
\* of the field's current value
EnvValue(i, tree, e) ==
    Coerce(tree[env_mappings[i][2]], Str_(Strip(e[env_mappings[i][1]].s)))

\* setattr(section_obj, field, env_value) for the i-th mapping, when the
\* variable is set
EnvAssign(i, tree, e) ==
    IF e[env_mappings[i][1]] = Missing THEN tree
    ELSE [tree EXCEPT ![env_mappings[i][2]] = EnvValue(i, tree, e).val]

RECURSIVE LoadFromEnv(_, _, _)
\* the loop of _load_from_env from the i-th mapping on; a conversion that
\* raises ends the loop (one try around it)
LoadFromEnv(i, tree, e) ==
    IF i > Len(env_mappings) THEN tree
    ELSE IF e[env_mappings[i][1]] # Missing /\ ~EnvValue(i, tree, e).ok THEN tree
    ELSE LoadFromEnv(i + 1, EnvAssign(i, tree, e), e)

\* ConfigManager._load_from_env
load_from_env(tree, e) == LoadFromEnv(1, tree, e)

\* the tree of _load_config before _load_from_env: self.config as it is when
\* there is no file, the defaults for a document that holds no key or does
\* not parse, the validated content otherwise
FileTree(f, cur) ==
    CASE f.kind = "absent" -> cur
      [] f.kind = "truncated" -> Defaults
      [] f.kind = "toml" -> FromData(f.data).tree

\* ConfigManager._load_config: the live tree and the file afterwards.  cur is
\* self.config when the load starts; a missing file is written first.
load_config(f, cur, w) ==
    [config |-> load_from_env(FileTree(f, cur), env),
     file |-> IF f.kind = "absent" THEN save_config(f, cur, w).file ELSE f]

ConfigChange(ts, k, old, new, usr) ==
    [timestamp |-> ts, section |-> k[1], field |-> k[2],
     old_value |-> old, new_value |-> new, user |-> usr]

max_history_size == 100

\* the last n items of a list: list[-n:] for n > 0
LastN(h, n) == IF Len(h) <= n THEN h ELSE SubSeq(h, Len(h) - n + 1, Len(h))

\* _add_to_history that drops the newest entries instead of the oldest
AddToHistory_keeps_oldest(h, change) ==
    LET h2 == Append(h, change)
    IN  IF Len(h2) > max_history_size THEN SubSeq(h2, 1, max_history_size) ELSE h2

\* ConfigManager._add_to_history, ConfigUpdater._add_to_history
AddToHistory(h, change) ==
    LET h2 == Append(h, change)
    IN  IF Len(h2) > max_history_size THEN LastN(h2, max_history_size) ELSE h2

\* the callbacks a caller may subscribe: one that returns, one that raises and
\* one that unsubscribes itself from its key while it is being called
Callbacks == {"cb_returns", "cb_raises", "cb_unsubscribes"}

RECURSIVE RemoveFirst(_, _)
\* list.remove(x) for x in the list
RemoveFirst(xs, x) ==
    IF xs = <<>> THEN <<>>
    ELSE IF Head(xs) = x THEN Tail(xs)
    ELSE <<Head(xs)>> \o RemoveFirst(Tail(xs), x)

InList(xs, x) == \E i \in 1..Len(xs) : xs[i] = x

\* unsubscribe_from_changes on the list of one key
Unsubscribe(xs, cb) == IF InList(xs, cb) THEN RemoveFirst(xs, cb) ELSE xs

\* what calling cb does to the list of its key
CallbackEffect(xs, cb) == IF cb = "cb_unsubscribes" THEN Unsubscribe(xs, cb) ELSE xs

RECURSIVE NotifyLoop(_, _, _)
\* for callback in self.subscribers[key]: the iterator holds an index into the
\* live list.  Gives the list afterwards and the callbacks invoked, in order.
NotifyLoop(xs, i, invoked) ==
    IF i > Len(xs) THEN [list |-> xs, invoked |-> invoked]
    ELSE NotifyLoop(CallbackEffect(xs, xs[i]), i + 1, Append(invoked, xs[i]))

\* _notify_subscribers([change]): an exception of a callback is caught and logged
NotifySubscribers(subs, k) ==
    LET r == NotifyLoop(subs[k], 1, <<>>)
    IN  [subs |-> [subs EXCEPT ![k] = r.list], invoked |-> r.invoked]

\* set_value with the assignment made before the conversion is tried
set_value_assigns_first(c, h, f, subs, ts, k, value, w) ==
    LET old == get_value(c, k)
        same == [config |-> c, history |-> h, file |-> f, subs |-> subs,
                 invoked |-> <<>>, appended |-> FALSE, wrote |-> FALSE, changes |-> <<>>]
    IN  IF PyEq(old, value)
        THEN same @@ [success |-> TRUE, message |-> "No change needed"]
        ELSE IF k \in Fields
        THEN LET co == Coerce(c[k], value)
                 new == IF co.ok THEN co.val ELSE value
                 change == ConfigChange(ts, k, old, new, "api")
                 sv == save_config(f, [c EXCEPT ![k] = new], w)
                 nt == NotifySubscribers(subs, k)
             IN  IF ~co.ok
                 THEN [same EXCEPT !.config = [c EXCEPT ![k] = new]]
                      @@ [success |-> FALSE, message |-> "Error updating"]
                 ELSE [config |-> [c EXCEPT ![k] = new],
                       history |-> AddToHistory(h, change),
                       file |-> sv.file,
                       subs |-> nt.subs,
                       invoked |-> nt.invoked,
                       appended |-> TRUE,
                       wrote |-> sv.ret,
                       changes |-> <<change>>,
                       success |-> TRUE,
                       message |-> "Successfully updated"]
        ELSE same @@ [success |-> FALSE, message |-> "Invalid config path"]

\* ConfigManager.set_value
set_value(c, h, f, subs, ts, k, value, w) ==
    LET old == get_value(c, k)
        same == [config |-> c, history |-> h, file |-> f, subs |-> subs,
                 invoked |-> <<>>, appended |-> FALSE, wrote |-> FALSE, changes |-> <<>>]
    IN  IF PyEq(old, value)
        THEN same @@ [success |-> TRUE, message |-> "No change needed"]
        ELSE IF k \in Fields
        THEN LET co == Coerce(c[k], value)
                 change == ConfigChange(ts, k, old, co.val, "api")
                 sv == save_config(f, [c EXCEPT ![k] = co.val], w)
                 nt == NotifySubscribers(subs, k)
             IN  IF ~co.ok
                 THEN same @@ [success |-> FALSE, message |-> "Error updating"]
                 ELSE [config |-> [c EXCEPT ![k] = co.val],
                       history |-> AddToHistory(h, change),
                       file |-> sv.file,
                       subs |-> nt.subs,
                       invoked |-> nt.invoked,
                       appended |-> TRUE,
                       wrote |-> sv.ret,
                       changes |-> <<change>>,
                       success |-> TRUE,
                       message |-> "Successfully updated"]
        ELSE same @@ [success |-> FALSE, message |-> "Invalid config path"]


RECURSIVE InsertByTimestamp(_, _)
\* x put after the items of the sorted list xs whose timestamp is not larger
InsertByTimestamp(xs, x) ==
    IF xs = <<>> THEN <<x>>
    ELSE IF Head(xs).timestamp <= x.timestamp
    THEN <<Head(xs)>> \o InsertByTimestamp(Tail(xs), x)
    ELSE <<x>> \o xs

\* the history as it is, in insertion order
SortedByTimestamp_insertion_order(h) == h

RECURSIVE SortedByTimestamp(_)
\* sorted(self.change_history, key=lambda x: x.timestamp): a stable sort
SortedByTimestamp(h) ==
    IF h = <<>> THEN <<>>
    ELSE InsertByTimestamp(SortedByTimestamp(SubSeq(h, 1, Len(h) - 1)), h[Len(h)])

RECURSIVE Replay(_, _)
\* setattr(section_obj, change.field, change.new_value) for each change in turn
Replay(t, cs) ==
    IF cs = <<>> THEN t
    ELSE LET ch == Head(cs)
             k == <<ch.section, ch.field>>
         IN  Replay(IF k \in Fields THEN [t EXCEPT ![k] = ch.new_value] ELSE t, Tail(cs))

\* the changes of the sorted history up to the last one with timestamp <= ts
UpTo(sorted, ts) == SelectSeq(sorted, LAMBDA ch : ch.timestamp <= ts)

\* ConfigManager.rollback_to_timestamp
rollback_to_timestamp(c, h, f, ts, w) ==
    LET target_config == Replay(Defaults, UpTo(SortedByTimestamp(h), ts))
    IN  [config |-> target_config,
         file |-> save_config(f, target_config, w).file,
         wrote |-> save_config(f, target_config, w).ret,
         success |-> TRUE]

\* ConfigManager.subscribe_to_changes
subscribe_to_changes(subs, k, cb) == [subs EXCEPT ![k] = Append(@, cb)]

\* ConfigManager.unsubscribe_from_changes
unsubscribe_from_changes(subs, k, cb) == [subs EXCEPT ![k] = Unsubscribe(@, cb)]

\* an optional argument: <<>> is None, <<x>> is x
NotGiven == <<>>

\* list[start:] of Python
SliceFrom(h, start) ==
    IF start >= 0 THEN SubSeq(h, start + 1, Len(h)) ELSE LastN(h, -start)

\* ConfigManager.get_change_history, ConfigUpdater.get_change_history
get_change_history(h, section, field, limit) ==
    LET by_section == IF section = NotGiven THEN h
                      ELSE SelectSeq(h, LAMBDA change : change.section = section[1])
        by_field == IF field = NotGiven THEN by_section
                    ELSE SelectSeq(by_section, LAMBDA change : change.field = field[1])
    IN  IF limit = NotGiven THEN by_field ELSE SliceFrom(by_field, -limit[1])

\* ConfigManager._deep_merge of two dumps, each a map from the fields to a
\* value or to Missing: a key of the source replaces the key of the target
deep_merge(target, source) ==
    [k \in Fields |-> IF source[k] # Missing THEN source[k] ELSE target[k]]

\* config.model_dump(): every field is a key, None included
model_dump(t) == t

\* ConfigManager.import_config: imp is the file at import_path
import_config(c, f, imp, merge, w) ==
    LET unchanged(msg) == [config |-> c, file |-> f, success |-> FALSE, message |-> msg]
        imported == FromData(imp.data)
        merged == FromData(deep_merge(model_dump(c), model_dump(imported.tree)))
        new == IF merge THEN merged ELSE imported
        sv == save_config(f, new.tree, w)
    IN  CASE imp.kind = "absent" -> unchanged("Import file not found")
          [] imp.kind = "truncated" -> unchanged("Error importing config")
          [] ~imported.ok -> unchanged("Error importing config")
          [] ~new.ok -> unchanged("Error importing config")
          [] OTHER -> [config |-> new.tree, file |-> sv.file, success |-> sv.ret,
                       message |-> IF sv.ret THEN "Successfully imported config"
                                   ELSE "Failed to save imported config"]

\* ConfigManager.validate_config: the value of "valid"
validate_config(c) == FromData(model_dump(c)).ok

\* ConfigManager.reload_config
reload_config(f, c, w) == load_config(f, c, w)

\* ConfigManager.reset_to_defaults: the tree is replaced, then saved
reset_to_defaults(c, f, w) ==
    [config |-> Defaults, file |-> save_config(f, Defaults, w).file,
     ret |-> save_config(f, Defaults, w).ret]

-----------------------------------------------------------------------------
(* The calls of the model *)

T_1p5 == Str_(<<"1", ".", "5">>)
T_5p0 == Str_(<<"5", ".", "0">>)
T_hot == Str_(<<"h", "o", "t">>)
T_db == Str_(<<" ", "d", "b">>)
T_bad == Str_(<<"b", "a", "d">>)

\* the (section, field, value) arguments of set_value in the model
SetInputs ==
    { <<F_temperature, T_1p5>>, <<F_temperature, T_5p0>>, <<F_temperature, T_hot>>,
      <<F_port, Int_(8001)>>,
      <<F_host, T_db>>,
      <<F_provider, T_bad>>,
      <<U_field, None>>, <<U_section, Int_(1)>> }

\* a document an operator left at the path before the start: valid, and not the defaults
CustomDoc == Doc([EmptyDoc EXCEPT ![F_host] = Str_(<<"d", "b", "1">>), ![F_temperature] = Int_(1)])

InitFiles == {Absent, CustomDoc}

NoCall ==
    [op |-> "none", key |-> U_section, value |-> None, ts |-> 0, w |-> "ok",
     success |-> TRUE, message |-> "", changes |-> <<>>, appended |-> FALSE,
     invoked |-> <<>>, wrote |-> FALSE, doc |-> Absent, merge |-> FALSE,
     filter |-> <<NotGiven, NotGiven, NotGiven>>]

\* what the model keeps of the call before the last one
Brief(call) ==
    [op |-> call.op, key |-> call.key, value |-> call.value,
     changed |-> /\ call.appended
                 /\ ~PyEq(call.changes[1].old_value, call.changes[1].new_value)]

\* ConfigManager.__init__: the tree is ChatbotConfig(), then _load_config
ManagerStart(f0, e) ==
    /\ env = e
    /\ config = load_config(f0, Defaults, "ok").config
    /\ file = load_config(f0, Defaults, "ok").file
    /\ loaded = config
    /\ change_history = <<>>
    /\ subscribers = [k \in Keys |-> <<>>]
    /\ now = 1
    /\ nops = 0
    /\ last = NoCall
    /\ prev = Brief(NoCall)
    /\ log = <<>>

\* ConfigManager.__init__ in a process with no mapped environment variable
ManagerInit(f0) == ManagerStart(f0, NoEnv)

\* the threads that use the module-level ConfigUpdater: the request threads
\* and the thread of the debounce timer
RequestThreads == {"request_1", "request_2"}
TimerThread == "timer"
Threads == RequestThreads \cup {TimerThread}

\* threading.RLock(): nobody holds it
NoOwner == "none"
Unlocked == [owner |-> NoOwner, count |-> 0]

\* a thread that is in no ConfigUpdater operation
NoOp ==
    [op |-> "none", k |-> F_port, value |-> None, doc |-> Absent, ts |-> 0,
     id |-> 0, waited |-> FALSE, old_value |-> None, saved |-> Defaults,
     changes |-> <<>>, failed |-> FALSE, restore |-> "none"]

\* ConfigUpdater.__init__: backup_config is None, the lock is free
LockInit ==
    /\ lock = Unlocked
    /\ pc = [t \in Threads |-> "idle"]
    /\ frame = [t \in Threads |-> NoOp]
    /\ backup_config = <<>>
    /\ backup_owner = 0
    /\ acquired = <<>>
    /\ appends = <<>>
    /\ u_subscribers = [k \in Keys |-> <<>>]

\* no save_config call is between open(path, 'w') and toml.dump
NoSave == [active |-> FALSE, call |-> NoCall, subs |-> <<>>, file |-> Absent]

\* threading.Timer: armed from start() until it fires or is cancelled
NoTimer == [armed |-> FALSE, path |-> [name |-> "", suffix |-> ""], deadline |-> 0]

\* a process that constructs no ConfigUpdater: nothing watches the file
NoUpdater ==
    /\ is_watching = FALSE
    /\ timer = NoTimer
    /\ u_config = Defaults
    /\ u_history = <<>>
    /\ events = <<>>
    /\ callbacks = <<>>
    /\ saving = NoSave
    /\ LockInit

Init == \E f0 \in InitFiles : ManagerInit(f0) /\ NoUpdater

SetValue(k, value, w) ==
    /\ nops < MaxOps
    /\ LET r == set_value(config, change_history, file, subscribers, now, k, value, w)
       IN  /\ config' = r.config
           /\ change_history' = r.history
           /\ file' = r.file
           /\ subscribers' = r.subs
           /\ log' = IF r.appended
                     THEN Append(log, [change |-> r.changes[1], tree |-> r.config])
                     ELSE log
           /\ last' = [op |-> "set_value", key |-> k, value |-> value, ts |-> now, w |-> w,
                       success |-> r.success, message |-> r.message, changes |-> r.changes,
                       appended |-> r.appended, invoked |-> r.invoked, wrote |-> r.wrote,
                       doc |-> Absent, merge |-> FALSE,
                       filter |-> <<NotGiven, NotGiven, NotGiven>>]
    /\ prev' = Brief(last)
    /\ nops' = nops + 1
    /\ UNCHANGED <<now, loaded, env>>
    /\ UNCHANGED watcher_vars

Rollback(ts, w) ==
    /\ nops < MaxOps
    /\ LET r == rollback_to_timestamp(config, change_history, file, ts, w)
       IN  /\ config' = r.config
           /\ file' = r.file
           /\ last' = [op |-> "rollback", key |-> U_section, value |-> None, ts |-> ts, w |-> w,
                       success |-> r.success, message |-> "Successfully rolled back",
                       changes |-> <<>>, appended |-> FALSE, invoked |-> <<>>,
                       wrote |-> r.wrote, doc |-> Absent, merge |-> FALSE,
                       filter |-> <<NotGiven, NotGiven, NotGiven>>]
    /\ prev' = Brief(last)
    /\ nops' = nops + 1
    /\ UNCHANGED <<change_history, subscribers, now, log, loaded, env>>
    /\ UNCHANGED watcher_vars

\* time passes
Tick ==
    /\ now < MaxTime
    /\ now' = now + 1
    /\ UNCHANGED <<config, file, change_history, subscribers, nops, last, prev, log, loaded, env>>
    /\ UNCHANGED watcher_vars

\* the bare ConfigManager: values, history and rollback
Next ==
    \/ \E in \in SetInputs, w \in WriteOutcomes : SetValue(in[1], in[2], w)
    \/ \E ts \in 0..MaxTime, w \in WriteOutcomes : Rollback(ts, w)
    \/ Tick

Spec == Init /\ [][Next]_vars


-----------------------------------------------------------------------------
(* The ConfigManager with subscribers *)

NotifyInputs ==
    { <<F_temperature, T_1p5>>, <<F_temperature, T_hot>>,
      <<F_port, Int_(8001)>>, <<F_port, None>>,
      <<F_host, Int_(5)>> }

\* the keys callers subscribe to in the model
SubKeys == {F_temperature, F_port}

SubCount == Len(subscribers[F_temperature]) + Len(subscribers[F_port])

Subscribe(k, cb) ==
    /\ SubCount < MaxSubs
    /\ subscribers' = subscribe_to_changes(subscribers, k, cb)
    /\ UNCHANGED <<config, file, change_history, now, nops, last, prev, log, loaded, env>>
    /\ UNCHANGED watcher_vars

UnsubscribeCall(k, cb) ==
    /\ InList(subscribers[k], cb)
    /\ subscribers' = unsubscribe_from_changes(subscribers, k, cb)
    /\ UNCHANGED <<config, file, change_history, now, nops, last, prev, log, loaded, env>>
    /\ UNCHANGED watcher_vars

NextNotify ==
    \/ \E in \in NotifyInputs : SetValue(in[1], in[2], "ok")
    \/ \E k \in SubKeys, cb \in Callbacks : Subscribe(k, cb)
    \/ \E k \in SubKeys, cb \in Callbacks : UnsubscribeCall(k, cb)

SpecNotify == Init /\ [][NextNotify]_vars

-----------------------------------------------------------------------------
(* The ConfigManager with a history that is about to overflow *)

\* the i-th of the changes made before the start: backend.port is set to 8001
\* and back to 8000 in turn, one call every tenth of a second
EarlierChange(i) ==
    ConfigChange(i - max_history_size, F_port,
                 Int_(IF i % 2 = 1 THEN 8000 ELSE 8001),
                 Int_(IF i % 2 = 1 THEN 8001 ELSE 8000), "api")

EarlierTree(i) == [Defaults EXCEPT ![F_port] = Int_(IF i % 2 = 1 THEN 8001 ELSE 8000)]

\* the number of set_value calls made before the start
Earlier == max_history_size - 1

\* a manager constructed with no file, after Earlier set_value calls
InitHistory ==
    /\ config = EarlierTree(Earlier)
    /\ file = Doc(TomlDump(config))
    /\ loaded = Defaults
    /\ env = NoEnv
    /\ change_history = [i \in 1..Earlier |-> EarlierChange(i)]
    /\ log = [i \in 1..Earlier |-> [change |-> EarlierChange(i), tree |-> EarlierTree(i)]]
    /\ subscribers = [k \in Keys |-> <<>>]
    /\ now = 1
    /\ nops = 0
    /\ last = NoCall
    /\ prev = Brief(NoCall)
    /\ NoUpdater

NextHistory ==
    \/ \E in \in SetInputs, w \in WriteOutcomes : SetValue(in[1], in[2], w)
    \/ Tick

SpecHistory == InitHistory /\ [][NextHistory]_vars

-----------------------------------------------------------------------------
(* The ConfigManager and the operations on the whole tree *)

\* files to import: one key, a port out of range, no file, a file cut short
PortDoc == Doc([EmptyDoc EXCEPT ![F_port] = Int_(8001)])
BadPortDoc == Doc([EmptyDoc EXCEPT ![F_port] = Int_(0)])
SamePortsDoc == Doc([EmptyDoc EXCEPT ![F_port] = Int_(3000)])
ImportDocs == {PortDoc, BadPortDoc, SamePortsDoc, Absent, Truncated}

TreeInputs ==
    { <<F_temperature, T_1p5>>, <<F_port, Int_(3000)>>, <<F_fport, Int_(3001)>>,
      <<F_api_base, Str_(<<>>)>>, <<F_api_key, Str_(<<>>)>> }

Import(imp, merge, w) ==
    /\ nops < MaxOps
    /\ LET r == import_config(config, file, imp, merge, w)
       IN  /\ config' = r.config
           /\ file' = r.file
           /\ last' = [NoCall EXCEPT !.op = "import", !.w = w, !.ts = now,
                                     !.success = r.success, !.message = r.message,
                                     !.wrote = r.success, !.doc = imp, !.merge = merge]
    /\ prev' = Brief(last)
    /\ nops' = nops + 1
    /\ UNCHANGED <<change_history, subscribers, now, log, loaded, env>>
    /\ UNCHANGED watcher_vars

ResetToDefaults(w) ==
    /\ nops < MaxOps
    /\ LET r == reset_to_defaults(config, file, w)
       IN  /\ config' = r.config
           /\ file' = r.file
           /\ last' = [NoCall EXCEPT !.op = "reset", !.w = w, !.ts = now,
                                     !.success = r.ret, !.wrote = r.ret]
    /\ prev' = Brief(last)
    /\ nops' = nops + 1
    /\ UNCHANGED <<change_history, subscribers, now, log, loaded, env>>
    /\ UNCHANGED watcher_vars

Validate ==
    /\ nops < MaxOps
    /\ last' = [NoCall EXCEPT !.op = "validate", !.ts = now, !.success = validate_config(config)]
    /\ prev' = Brief(last)
    /\ nops' = nops + 1
    /\ UNCHANGED <<config, file, change_history, subscribers, now, log, loaded, env>>
    /\ UNCHANGED watcher_vars

Reload(w) ==
    /\ nops < MaxOps
    /\ LET r == reload_config(file, config, w)
       IN  /\ config' = r.config
           /\ file' = r.file
           /\ last' = [NoCall EXCEPT !.op = "reload", !.w = w, !.ts = now, !.doc = file]
    /\ prev' = Brief(last)
    /\ nops' = nops + 1
    /\ UNCHANGED <<change_history, subscribers, now, log, loaded, env>>
    /\ UNCHANGED watcher_vars

\* the file at config_path is deleted from outside
DeleteFile ==
    /\ nops < MaxOps
    /\ file.kind # "absent"
    /\ file' = Absent
    /\ last' = [NoCall EXCEPT !.op = "delete", !.ts = now]
    /\ prev' = Brief(last)
    /\ nops' = nops + 1
    /\ UNCHANGED <<config, change_history, subscribers, now, log, loaded, env>>
    /\ UNCHANGED watcher_vars

NextTree ==
    \/ \E in \in TreeInputs : SetValue(in[1], in[2], "ok")
    \/ \E imp \in ImportDocs, merge \in BOOLEAN, w \in WriteOutcomes : Import(imp, merge, w)
    \/ \E w \in WriteOutcomes : ResetToDefaults(w)
    \/ Validate
    \/ \E w \in WriteOutcomes : Reload(w)
    \/ \E ts \in 0..MaxTime : Rollback(ts, "ok")
    \/ DeleteFile

SpecTree == Init /\ [][NextTree]_vars

-----------------------------------------------------------------------------
(* The ConfigManager in a process with mapped environment variables *)

T_0p3 == Str_(<<"0", ".", "3">>)
T_9000 == Str_(<<"9", "0", "0", "0">>)

\* what os.environ may hold for OPENAI_TEMPERATURE, BACKEND_PORT, QDRANT_HOST
Environments ==
    { [NoEnv EXCEPT !["OPENAI_TEMPERATURE"] = t, !["BACKEND_PORT"] = p, !["QDRANT_HOST"] = h] :
        t \in {Missing, T_0p3, T_hot}, p \in {Missing, T_9000}, h \in {Missing, T_db} }

EnvInputs == { <<F_temperature, T_1p5>>, <<F_fport, Int_(3001)>> }

InitEnv == \E f0 \in InitFiles, e \in Environments : ManagerStart(f0, e) /\ NoUpdater

NextEnv ==
    \/ \E in \in EnvInputs : SetValue(in[1], in[2], "ok")
    \/ \E w \in WriteOutcomes : Reload(w)
    \/ DeleteFile

SpecEnv == InitEnv /\ [][NextEnv]_vars

-----------------------------------------------------------------------------
(* ConfigWatcher and ConfigUpdater: the file is watched and reloaded *)

debounce_interval == 10

\* ConfigWatcher.config_path, and two other files of the watched directory
config_path == [name |-> "config", suffix |-> "toml"]
OtherToml == [name |-> "pyproject", suffix |-> "toml"]
NotesTxt == [name |-> "notes", suffix |-> "txt"]
Paths == {config_path, OtherToml, NotesTxt}

\* what an editor may leave in the config file: a new temperature, or a
\* document cut short
EditedDoc == Doc([EmptyDoc EXCEPT ![F_temperature] = Float_(15)])
ExternalDocs == {EditedDoc, Truncated}

\* the declaration order of the sections of ChatbotConfig and of their fields
FieldOrder ==
    <<F_port, F_reload, F_fhost, F_fport, F_origins, F_host, F_api_key, F_api_base,
      F_temperature, F_provider>>

RECURSIVE DetectFrom(_, _, _, _)
DetectFrom(i, old, new, ts) ==
    IF i > Len(FieldOrder) THEN <<>>
    ELSE LET k == FieldOrder[i]
             rest == DetectFrom(i + 1, old, new, ts)
         IN  IF ~PyEq(old[k], new[k])
             THEN <<ConfigChange(ts, k, old[k], new[k], "system")>> \o rest
             ELSE rest

\* ConfigUpdater._detect_changes
detect_changes(old, new, ts) == DetectFrom(1, old, new, ts)

RECURSIVE AddAll(_, _)
\* for change in changes: self._add_to_history(change)
AddAll(h, changes) ==
    IF changes = <<>> THEN h
    ELSE AddAll(AddToHistory(h, Head(changes)), Tail(changes))

\* where an exception may be raised inside a reconciliation: nowhere, or in
\* _detect_changes
Faults == {"none", "diff"}

\* ConfigUpdater._restore_from_backup: the backup is written to the file;
\* config_manager.config is not assigned
restore_from_backup(live, f, backup, w) ==
    [config |-> live, file |-> save_config(f, backup, w).file, wrote |-> w # "fail_open"]

\* the state of _notify_subscribers after the loop over the callbacks of key k
\* has given r
Notified(s, k, r) ==
    [subs |-> [s.subs EXCEPT ![k] = r.list],
     invoked |-> s.invoked \o [i \in 1..Len(r.invoked) |-> <<k, r.invoked[i]>>]]

RECURSIVE NotifyAll(_, _)
\* ConfigUpdater._notify_subscribers(changes): for every change, the loop
\* over the live list of its key.  s holds the subscribers and the calls
\* made so far, each as <<key, callback>>.
NotifyAll(s, cs) ==
    IF cs = <<>> THEN s
    ELSE NotifyAll(Notified(s, <<Head(cs).section, Head(cs).field>>,
                            NotifyLoop(s.subs[<<Head(cs).section, Head(cs).field>>], 1, <<>>)),
                   Tail(cs))

\* ConfigUpdater._on_config_file_changed: the backup is the live tree, the
\* manager reloads, the differences go to the history; an exception leads to
\* _restore_from_backup.  When the file is missing, _load_config keeps the
\* object that the backup refers to and _detect_changes compares it with
\* itself.  wrote: the handler opened the file for writing.
on_config_file_changed(uc, uh, f, ts, fault, w) ==
    LET backup == uc
        r == load_config(f, uc, "ok")
        changes == IF f.kind = "absent" THEN <<>> ELSE detect_changes(backup, r.config, ts)
        rb == restore_from_backup(r.config, r.file, backup, w)
    IN  IF fault = "diff"
        THEN [config |-> rb.config, file |-> rb.file, history |-> uh, wrote |-> rb.wrote,
              changes |-> <<>>]
        ELSE [config |-> r.config, file |-> r.file, history |-> AddAll(uh, changes),
              wrote |-> f.kind = "absent", changes |-> changes]

\* ConfigFileEventHandler.on_modified: does the event reach _on_file_changed
on_modified(path) == path.suffix = "toml"

\* ConfigWatcher.stop_watching: the observer is stopped and joined; self.timer
\* is not touched
stop_watching(t) == t

\* ConfigWatcher._on_file_changed
on_file_changed(t, path, ts) == [armed |-> TRUE, path |-> path, deadline |-> ts + debounce_interval]

\* the timer is due: its thread runs before anything else happens
TimerDue == timer.armed /\ now >= timer.deadline

\* ConfigUpdater.__init__ after the module-level ConfigManager: a second
\* ConfigManager loads the same file, and the watcher is started
UpdaterInit ==
    /\ u_config = load_config(file, Defaults, "ok").config
    /\ u_history = <<>>
    /\ is_watching = TRUE
    /\ timer = NoTimer
    /\ events = <<>>
    /\ callbacks = <<>>
    /\ saving = NoSave
    /\ LockInit

InitWatcher == \E f0 \in InitFiles : ManagerInit(f0) /\ UpdaterInit

\* a file of the watched directory is modified; doc is what the config file
\* holds afterwards.  The observer passes the event on while it runs.
FileModified(path, doc) ==
    /\ nops < MaxEvents
    /\ ~TimerDue
    /\ nops' = nops + 1
    /\ file' = IF path = config_path THEN doc ELSE file
    /\ IF is_watching /\ on_modified(path)
       THEN /\ timer' = on_file_changed(timer, path, now)
            /\ events' = Append(events, [path |-> path, at |-> now])
       ELSE UNCHANGED <<timer, events>>
    /\ UNCHANGED <<config, change_history, subscribers, now, last, prev, log, loaded, env>>
    /\ UNCHANGED <<is_watching, u_config, u_history, callbacks, saving>>
    /\ UNCHANGED lock_vars

\* the timer thread: ConfigWatcher._process_file_change.  When the callback
\* writes the config file itself, the observer reports that modification too.
TimerFires(fault, w) ==
    /\ TimerDue
    /\ IF timer.path = config_path
       THEN \E r \in {on_config_file_changed(u_config, u_history, file, now, fault, w)} :
            \E n \in {NotifyAll([subs |-> u_subscribers, invoked |-> <<>>], r.changes)} :
                /\ callbacks' = Append(callbacks, [path |-> timer.path, at |-> now,
                                                   watching |-> is_watching, fault |-> fault,
                                                   read |-> file.kind, invoked |-> n.invoked])
                /\ u_subscribers' = n.subs
                /\ backup_config' = IF file.kind = "absent" THEN <<r.config>> ELSE <<u_config>>
                /\ u_config' = r.config
                /\ u_history' = r.history
                /\ file' = r.file
                /\ IF r.wrote /\ is_watching
                   THEN /\ timer' = on_file_changed(timer, config_path, now)
                        /\ events' = Append(events, [path |-> config_path, at |-> now])
                   ELSE /\ timer' = [timer EXCEPT !.armed = FALSE]
                        /\ events' = events
       ELSE /\ fault = "none" /\ w = "ok"
            /\ timer' = [timer EXCEPT !.armed = FALSE]
            /\ UNCHANGED <<callbacks, u_config, u_history, file, events, backup_config, u_subscribers>>
    /\ UNCHANGED <<config, change_history, subscribers, now, nops, last, prev, log, loaded, env>>
    /\ UNCHANGED <<is_watching, saving, lock, pc, frame, backup_owner, acquired, appends>>

\* ConfigUpdater.stop
Stop ==
    /\ is_watching
    /\ is_watching' = FALSE
    /\ timer' = stop_watching(timer)
    /\ UNCHANGED manager_vars
    /\ UNCHANGED <<u_config, u_history, events, callbacks, saving>>
    /\ UNCHANGED lock_vars

\* half a debounce interval passes, never past the moment the timer is due
\* and never in the middle of a save
Advance ==
    /\ ~TimerDue
    /\ ~saving.active
    /\ now + (debounce_interval \div 2) <= MaxClock
    /\ now' = now + (debounce_interval \div 2)
    /\ UNCHANGED <<config, file, change_history, subscribers, nops, last, prev, log, loaded, env>>
    /\ UNCHANGED watcher_vars

NextWatcher ==
    \/ \E doc \in ExternalDocs : FileModified(config_path, doc)
    \/ \E path \in Paths \ {config_path} : FileModified(path, file)
    \/ TimerFires("none", "ok")
    \/ \E w \in WriteOutcomes : TimerFires("diff", w)
    \/ Stop
    \/ Advance

SpecWatcher == InitWatcher /\ [][NextWatcher]_vars

-----------------------------------------------------------------------------
(* The watcher under fair scheduling: time passes, and the thread of a       *)
(* threading.Timer runs once its interval has elapsed                        *)

\* a file is modified early enough for the debounce interval that follows the
\* event, and the one after a write by the callback, to pass before MaxClock
LiveModified(path, doc) ==
    /\ now + 2 * debounce_interval <= MaxClock
    /\ FileModified(path, doc)

NextLive ==
    \/ \E doc \in ExternalDocs : LiveModified(config_path, doc)
    \/ \E path \in Paths \ {config_path} : LiveModified(path, file)
    \/ TimerFires("none", "ok")
    \/ Advance

SpecLive ==
    /\ InitWatcher
    /\ [][NextLive]_vars
    /\ WF_vars(Advance)
    /\ WF_vars(TimerFires("none", "ok"))

-----------------------------------------------------------------------------
(* The reconciliation with subscribers of the ConfigUpdater *)

USubCount == Len(u_subscribers[F_temperature]) + Len(u_subscribers[F_port])

\* ConfigUpdater.subscribe_to_changes
USubscribe(k, cb) ==
    /\ USubCount < MaxSubs
    /\ ~TimerDue
    /\ u_subscribers' = subscribe_to_changes(u_subscribers, k, cb)
    /\ UNCHANGED manager_vars
    /\ UNCHANGED <<is_watching, timer, u_config, u_history, events, callbacks, saving>>
    /\ UNCHANGED <<lock, pc, frame, backup_config, backup_owner, acquired, appends>>

NextReconcile ==
    \/ \E k \in SubKeys, cb \in Callbacks : USubscribe(k, cb)
    \/ \E doc \in ExternalDocs : FileModified(config_path, doc)
    \/ TimerFires("none", "ok")
    \/ Advance

SpecReconcile == InitWatcher /\ [][NextReconcile]_vars

-----------------------------------------------------------------------------
(* ConfigUpdater.update_config and the reconciliation that its own write of  *)
(* the watched file brings about                                             *)

\* ConfigUpdater.update_config after set_value has returned result: a failed
\* or change-free call returns, a change goes to the updater's history
after_set_value(uh, k, old_value, result) ==
    [config |-> result.config,
     file |-> result.file,
     wrote |-> result.appended,
     success |-> result.success,
     changes |-> IF result.success /\ ~PyEq(old_value, get_value(result.config, k))
                 THEN result.changes ELSE <<>>,
     history |-> IF /\ result.success
                    /\ ~PyEq(old_value, get_value(result.config, k))
                    /\ result.changes # <<>>
                 THEN AddToHistory(uh, result.changes[1]) ELSE uh]

\* ConfigUpdater.update_config, with nothing raised: set_value of the
\* updater's manager, then the change goes to the updater's history
update_config(uc, uh, f, ts, k, value, w) ==
    after_set_value(uh, k, get_value(uc, k),
                    set_value(uc, <<>>, f, [key \in Keys |-> <<>>], ts, k, value, w))

UpdateInputs == { <<F_temperature, T_1p5>>, <<F_port, Int_(8001)>> }

\* a call of config_updater.update_config; the observer reports the write
UpdateConfig(k, value) ==
    /\ nops < MaxOps
    /\ ~TimerDue
    /\ \E r \in {update_config(u_config, u_history, file, now, k, value, "ok")} :
           /\ u_config' = r.config
           /\ backup_config' = <<r.config>>
           /\ u_history' = r.history
           /\ file' = r.file
           /\ last' = [NoCall EXCEPT !.op = "update_config", !.key = k, !.value = value,
                                     !.ts = now, !.success = r.success,
                                     !.changes = r.changes, !.appended = r.changes # <<>>,
                                     !.wrote = r.wrote]
           /\ IF r.wrote /\ is_watching
              THEN /\ timer' = on_file_changed(timer, config_path, now)
                   /\ events' = Append(events, [path |-> config_path, at |-> now])
              ELSE UNCHANGED <<timer, events>>
    /\ prev' = Brief(last)
    /\ nops' = nops + 1
    /\ UNCHANGED <<config, change_history, subscribers, now, log, loaded, env>>
    /\ UNCHANGED <<is_watching, callbacks, saving, lock, pc, frame, backup_owner, acquired, appends, u_subscribers>>

InitUpdate == \E f0 \in InitFiles, e \in Environments : ManagerStart(f0, e) /\ UpdaterInit

NextUpdate ==
    \/ \E in \in UpdateInputs : UpdateConfig(in[1], in[2])
    \/ TimerFires("none", "ok")
    \/ Advance

SpecUpdate == InitUpdate /\ [][NextUpdate]_vars

-----------------------------------------------------------------------------
(* The ConfigManager and rollbacks over a history whose timestamps are not   *)
(* in insertion order: time.time() is the wall clock, which may be set back  *)

\* two earlier set_value calls of llm.temperature, at the times a and b
EarlierFirst(a) ==
    ConfigChange(a, F_temperature, Defaults[F_temperature], Float_(15), "api")

EarlierSecond(b) ==
    ConfigChange(b, F_temperature, Float_(15), Float_(5), "api")

RollbackInputs == { <<F_temperature, T_1p5>>, <<F_port, Int_(8001)>> }

\* a manager constructed with no file, after the two calls
InitRollback ==
    \E a \in 0..MaxTime, b \in 0..MaxTime :
        /\ config = [Defaults EXCEPT ![F_temperature] = Float_(5)]
        /\ file = Doc(TomlDump(config))
        /\ loaded = Defaults
        /\ env = NoEnv
        /\ change_history = <<EarlierFirst(a), EarlierSecond(b)>>
        /\ log = <<[change |-> EarlierFirst(a),
                    tree |-> [Defaults EXCEPT ![F_temperature] = Float_(15)]],
                  [change |-> EarlierSecond(b), tree |-> config]>>
        /\ subscribers = [k \in Keys |-> <<>>]
        /\ now = 1
        /\ nops = 0
        /\ last = NoCall
        /\ prev = Brief(NoCall)
        /\ NoUpdater

NextRollback ==
    \/ \E in \in RollbackInputs, w \in WriteOutcomes : SetValue(in[1], in[2], w)
    \/ \E ts \in 0..MaxTime, w \in WriteOutcomes : Rollback(ts, w)
    \/ Tick

SpecRollback == InitRollback /\ [][NextRollback]_vars

-----------------------------------------------------------------------------
(* The ConfigManager and the queries on its history *)

QueryInputs == { <<F_temperature, T_1p5>>, <<F_port, Int_(8001)>>, <<F_fport, Int_(3001)>> }

SectionFilters == {NotGiven, <<"backend">>, <<"llm">>}
FieldFilters == {NotGiven, <<"port">>}
Limits == {NotGiven} \cup {<<n>> : n \in 0..MaxLimit}

GetChangeHistory(section, field, limit) ==
    /\ last' = [NoCall EXCEPT !.op = "history", !.ts = now,
                              !.filter = <<section, field, limit>>,
                              !.changes = get_change_history(change_history, section, field, limit)]
    /\ prev' = Brief(last)
    /\ UNCHANGED <<config, file, change_history, subscribers, now, nops, log, loaded, env>>
    /\ UNCHANGED watcher_vars

NextQuery ==
    \/ \E in \in QueryInputs : SetValue(in[1], in[2], "ok")
    \/ \E section \in SectionFilters, field \in FieldFilters, limit \in Limits :
          GetChangeHistory(section, field, limit)

SpecQuery == Init /\ [][NextQuery]_vars

-----------------------------------------------------------------------------
(* A set_value of the module-level ConfigManager, in the thread of the      *)
(* routes, while the timer thread of the ConfigUpdater reloads the file     *)

SaveInputs == { <<F_temperature, T_1p5>>, <<F_port, Int_(8001)>>, <<F_host, T_db>> }

\* set_value up to open(self.config_path, 'w') in save_config: the value is
\* assigned, the change is in the history and the file is empty
BeginSetValue(k, value) ==
    /\ nops < MaxOps
    /\ ~saving.active
    /\ LET r == set_value(config, change_history, file, subscribers, now, k, value, "ok")
       IN  /\ r.appended
           /\ config' = r.config
           /\ change_history' = r.history
           /\ file' = Truncated
           /\ saving' = [active |-> TRUE, subs |-> r.subs, file |-> r.file,
                         call |-> [op |-> "set_value", key |-> k, value |-> value, ts |-> now,
                                   w |-> "ok", success |-> r.success, message |-> r.message,
                                   changes |-> r.changes, appended |-> r.appended,
                                   invoked |-> r.invoked, wrote |-> r.wrote,
                                   doc |-> Absent, merge |-> FALSE,
                                   filter |-> <<NotGiven, NotGiven, NotGiven>>]]
    /\ UNCHANGED <<subscribers, now, nops, last, prev, log, loaded, env>>
    /\ UNCHANGED <<is_watching, timer, u_config, u_history, events, callbacks>>
    /\ UNCHANGED lock_vars

\* the rest of set_value: toml.dump writes the document, the subscribers are
\* notified, and the observer reports the modification of the file
FinishSetValue ==
    /\ saving.active
    /\ file' = saving.file
    /\ subscribers' = saving.subs
    /\ log' = Append(log, [change |-> saving.call.changes[1], tree |-> config])
    /\ last' = saving.call
    /\ prev' = Brief(last)
    /\ nops' = nops + 1
    /\ saving' = NoSave
    /\ IF is_watching
       THEN /\ timer' = on_file_changed(timer, config_path, now)
            /\ events' = Append(events, [path |-> config_path, at |-> now])
       ELSE UNCHANGED <<timer, events>>
    /\ UNCHANGED <<config, change_history, now, loaded, env>>
    /\ UNCHANGED <<is_watching, u_config, u_history, callbacks>>
    /\ UNCHANGED lock_vars

NextSave ==
    \/ \E in \in SaveInputs : BeginSetValue(in[1], in[2])
    \/ FinishSetValue
    \/ TimerFires("none", "ok")
    \/ Advance

SpecSave == InitWatcher /\ [][NextSave]_vars

-----------------------------------------------------------------------------
(* The operations of the ConfigUpdater, step by step, in several threads *)

LockInputs == { <<F_temperature, T_1p5>>, <<F_port, Int_(8001)>> }

\* `with self.lock` may be entered by a thread when nobody or the thread
\* itself holds the RLock
CanAcquire_unlocked(l, t) == TRUE

CanAcquire(l, t) == l.owner = NoOwner \/ l.owner = t

\* leaving `with self.lock`
ReleaseLock(l) ==
    IF l.count <= 1 THEN Unlocked ELSE [l EXCEPT !.count = l.count - 1]

RECURSIVE changes_to_rollback(_, _)
\* rollback_to_timestamp: the changes after the timestamp, from the end of
\* the history down to the first one that is not later, oldest first
\* (reversed(changes_to_rollback) of the code)
changes_to_rollback(h, ts) ==
    IF h = <<>> THEN <<>>
    ELSE IF h[Len(h)].timestamp <= ts THEN <<>>
    ELSE Append(changes_to_rollback(SubSeq(h, 1, Len(h) - 1), ts), h[Len(h)])

RECURSIVE RollbackApply(_, _, _, _)
\* rollback_to_timestamp: set_value of every old value, then save_config
RollbackApply(c, f, cs, ts) ==
    IF cs = <<>> THEN [config |-> c, file |-> save_config(f, c, "ok").file]
    ELSE LET ch == Head(cs)
             r == set_value(c, <<>>, f, [k \in Keys |-> <<>>], ts,
                            <<ch.section, ch.field>>, ch.old_value, "ok")
         IN  RollbackApply(r.config, r.file, Tail(cs), ts)

\* str(timestamp) of a time given in tenths
FloatChars(x) == IntChars(x \div 10) \o <<".">> \o IntChars(x % 10)

\* rollback_to_timestamp: the entry that records the rollback
rollback_change(at, ts) ==
    ConfigChange(at, <<"system", "rollback">>,
                 Str_(<<"c", "u", "r", "r", "e", "n", "t">>),
                 Str_(<<"r", "o", "l", "l", "b", "a", "c", "k", "_", "t", "o", "_">>
                      \o FloatChars(ts)),
                 "system")

\* a thread calls an operation of the ConfigUpdater and reaches `with self.lock`
Invoke(t, c) ==
    /\ pc[t] = "idle"
    /\ nops < MaxOps
    /\ nops' = nops + 1
    /\ frame' = [frame EXCEPT ![t] = [c EXCEPT !.waited = lock.owner # NoOwner]]
    /\ pc' = [pc EXCEPT ![t] = "acquire"]
    /\ UNCHANGED <<config, file, change_history, subscribers, now, last, prev, log, loaded, env>>
    /\ UNCHANGED <<is_watching, timer, u_config, u_history, events, callbacks, saving>>
    /\ UNCHANGED <<lock, backup_config, backup_owner, acquired, appends, u_subscribers>>

\* with self.lock:
Acquire(t) ==
    /\ pc[t] = "acquire"
    /\ CanAcquire(lock, t)
    /\ lock' = [owner |-> t, count |-> lock.count + 1]
    /\ acquired' = Append(acquired, [thread |-> t, op |-> frame[t].op, waited |-> frame[t].waited,
                                     outcome |-> "running"])
    /\ frame' = [frame EXCEPT ![t].id = Len(acquired) + 1]
    /\ pc' = [pc EXCEPT ![t] = "backup"]
    /\ UNCHANGED manager_vars
    /\ UNCHANGED <<is_watching, timer, u_config, u_history, events, callbacks, saving>>
    /\ UNCHANGED <<backup_config, backup_owner, appends, u_subscribers>>

\* self.backup_config = self.config_manager.get_config(), with what the
\* operation reads before it; a rollback with nothing to roll back returns
Backup(t) ==
    /\ pc[t] = "backup"
    /\ IF /\ frame[t].op = "rollback_to_timestamp"
          /\ changes_to_rollback(u_history, frame[t].ts) = <<>>
       THEN /\ pc' = [pc EXCEPT ![t] = "release"]
            /\ UNCHANGED <<frame, backup_config, backup_owner>>
       ELSE /\ backup_config' = <<u_config>>
            /\ backup_owner' = frame[t].id
            /\ frame' = [frame EXCEPT ![t].saved = u_config,
                                    ![t].old_value = get_value(u_config, frame[t].k),
                                    ![t].changes = changes_to_rollback(u_history, frame[t].ts)]
            /\ pc' = [pc EXCEPT ![t] = "apply"]
    /\ UNCHANGED manager_vars
    /\ UNCHANGED <<is_watching, timer, u_config, u_history, events, callbacks, saving>>
    /\ UNCHANGED <<lock, acquired, appends, u_subscribers>>

\* what every operation does with the result of its call into the
\* ConfigManager of the updater; an operation whose call failed returns.
\* get_config() returns self.config itself, so backup_config is the object
\* that set_value changes in place; reload_config and import_config assign a
\* new object to self.config and leave the backup as it was.
Applied(t, tree, f, success, changes, in_place) ==
    /\ u_config' = tree
    /\ backup_config' = IF in_place THEN <<tree>> ELSE backup_config
    /\ file' = f
    /\ frame' = [frame EXCEPT ![t].changes = changes]
    /\ pc' = [pc EXCEPT ![t] = IF success THEN "diff" ELSE "release"]
    /\ UNCHANGED <<config, change_history, subscribers, now, nops, last, prev, log, loaded, env>>
    /\ UNCHANGED <<is_watching, timer, u_history, events, callbacks, saving>>
    /\ UNCHANGED <<lock, backup_owner, acquired, appends, u_subscribers>>

\* update_config: self.config_manager.set_value(section, field, value, ...)
ApplyUpdate(t) ==
    /\ pc[t] = "apply"
    /\ frame[t].op = "update_config"
    /\ LET r == set_value(u_config, <<>>, file, [k \in Keys |-> <<>>], now,
                          frame[t].k, frame[t].value, "ok")
       IN  Applied(t, r.config, r.file, r.success, r.changes, TRUE)

\* import_config: self.config_manager.import_config(import_path, format, merge=False)
ApplyImport(t) ==
    /\ pc[t] = "apply"
    /\ frame[t].op = "import_config"
    /\ LET r == import_config(u_config, file, frame[t].doc, FALSE, "ok")
       IN  Applied(t, r.config, r.file, r.success, <<>>, FALSE)

\* rollback_to_timestamp: the set_value calls and the save_config
ApplyRollback(t) ==
    /\ pc[t] = "apply"
    /\ frame[t].op = "rollback_to_timestamp"
    /\ LET r == RollbackApply(u_config, file, frame[t].changes, frame[t].ts)
       IN  Applied(t, r.config, r.file, TRUE, frame[t].changes, TRUE)

\* _on_config_file_changed: self.config_manager.reload_config()
ApplyReload(t) ==
    /\ pc[t] = "apply"
    /\ frame[t].op = "_on_config_file_changed"
    /\ LET r == reload_config(file, u_config, "ok")
       IN  Applied(t, r.config, r.file, TRUE, <<>>, FALSE)

\* the changes of the operation: the comparison of update_config, the
\* _detect_changes of import_config and _on_config_file_changed against
\* self.backup_config, the entry of a rollback.  An exception in the
\* reconciliation leads to _restore_from_backup.
Diff(t, fault) ==
    /\ pc[t] = "diff"
    /\ fault = "diff" => frame[t].op \in {"_on_config_file_changed", "update_config"}
    /\ LET c == frame[t]
           detected == detect_changes(backup_config[1], u_config, now)
       IN  CASE fault = "diff" ->
                  /\ file' = restore_from_backup(u_config, file, backup_config[1], "ok").file
                  /\ pc' = [pc EXCEPT ![t] = "release"]
                  /\ frame' = [frame EXCEPT ![t].failed = TRUE, ![t].restore = "restored"]
             [] fault # "diff" /\ c.op = "update_config" ->
                  /\ pc' = [pc EXCEPT ![t] =
                              IF PyEq(c.old_value, get_value(u_config, c.k)) \/ c.changes = <<>>
                              THEN "release" ELSE "append"]
                  /\ UNCHANGED <<frame, file>>
             [] fault # "diff" /\ c.op = "import_config" ->
                  /\ frame' = [frame EXCEPT ![t].changes = detected]
                  /\ pc' = [pc EXCEPT ![t] = "append"]
                  /\ UNCHANGED file
             [] fault # "diff" /\ c.op = "rollback_to_timestamp" ->
                  /\ frame' = [frame EXCEPT ![t].changes = <<rollback_change(now, c.ts)>>]
                  /\ pc' = [pc EXCEPT ![t] = "append"]
                  /\ UNCHANGED file
             [] OTHER ->
                  /\ frame' = [frame EXCEPT ![t].changes = detected]
                  /\ pc' = [pc EXCEPT ![t] = IF detected # <<>> THEN "append" ELSE "release"]
                  /\ UNCHANGED file
    /\ UNCHANGED <<config, change_history, subscribers, now, nops, last, prev, log, loaded, env>>
    /\ UNCHANGED <<is_watching, timer, u_config, u_history, events, callbacks, saving>>
    /\ UNCHANGED <<lock, backup_config, backup_owner, acquired, appends, u_subscribers>>

\* self._add_to_history(change) for the changes of the operation
AppendChanges(t) ==
    /\ pc[t] = "append"
    /\ u_history' = AddAll(u_history, frame[t].changes)
    /\ appends' = appends \o [i \in 1..Len(frame[t].changes) |-> frame[t].id]
    /\ pc' = [pc EXCEPT ![t] = IF frame[t].op = "rollback_to_timestamp"
                                THEN "release" ELSE "notify"]
    /\ UNCHANGED manager_vars
    /\ UNCHANGED <<is_watching, timer, u_config, events, callbacks, saving>>
    /\ UNCHANGED <<lock, frame, backup_config, backup_owner, acquired, u_subscribers>>

\* self._notify_subscribers(changes) of update_config, import_config and
\* _on_config_file_changed
NotifyChanges(t) ==
    /\ pc[t] = "notify"
    /\ u_subscribers' = NotifyAll([subs |-> u_subscribers, invoked |-> <<>>], frame[t].changes).subs
    /\ pc' = [pc EXCEPT ![t] = "release"]
    /\ UNCHANGED manager_vars
    /\ UNCHANGED <<is_watching, timer, u_config, u_history, events, callbacks, saving>>
    /\ UNCHANGED <<lock, frame, backup_config, backup_owner, acquired, appends>>

\* the end of `with self.lock`
Release(t) ==
    /\ pc[t] = "release"
    /\ lock' = ReleaseLock(lock)
    /\ frame' = [frame EXCEPT ![t] = NoOp]
    /\ pc' = [pc EXCEPT ![t] = "idle"]
    /\ UNCHANGED manager_vars
    /\ UNCHANGED <<is_watching, timer, u_config, u_history, events, callbacks, saving>>
    /\ acquired' = [acquired EXCEPT ![frame[t].id].outcome =
                        IF frame[t].failed THEN frame[t].restore ELSE "returned"]
    /\ UNCHANGED <<backup_config, backup_owner, appends, u_subscribers>>

\* somebody edits the config file
ExternalWrite(doc) ==
    /\ file # doc
    /\ file' = doc
    /\ UNCHANGED <<config, change_history, subscribers, now, nops, last, prev, log, loaded, env>>
    /\ UNCHANGED watcher_vars

NextLock ==
    \/ \E t \in RequestThreads, in \in LockInputs :
          Invoke(t, [NoOp EXCEPT !.op = "update_config", !.k = in[1], !.value = in[2]])
    \/ \E t \in RequestThreads :
          Invoke(t, [NoOp EXCEPT !.op = "import_config", !.doc = PortDoc])
    \/ \E t \in RequestThreads :
          Invoke(t, [NoOp EXCEPT !.op = "rollback_to_timestamp", !.ts = 0])
    \/ Invoke(TimerThread, [NoOp EXCEPT !.op = "_on_config_file_changed"])
    \/ \E t \in Threads : Acquire(t)
    \/ \E t \in Threads : Backup(t)
    \/ \E t \in RequestThreads : ApplyUpdate(t)
    \/ \E t \in RequestThreads : ApplyImport(t)
    \/ \E t \in RequestThreads : ApplyRollback(t)
    \/ ApplyReload(TimerThread)
    \/ \E t \in Threads, fault \in Faults : Diff(t, fault)
    \/ \E t \in Threads : AppendChanges(t)
    \/ \E t \in Threads : NotifyChanges(t)
    \/ \E t \in Threads : Release(t)
    \/ ExternalWrite(EditedDoc)

SpecLock == InitWatcher /\ [][NextLock]_vars

-----------------------------------------------------------------------------
(* The reconciliation in the timer thread when one of its steps raises, and  *)
(* the threads under fair scheduling                                         *)

\* _restore_from_backup with a save_config that lets the exception of a
\* failed write through
restore_attempt_save_raises(f, backup, w) ==
    [file |-> IF backup = <<>> THEN f ELSE save_config(f, backup[1], w).file,
     outcome |-> IF backup = <<>> THEN "no_backup"
                 ELSE IF save_config(f, backup[1], w).ret THEN "restored" ELSE "save_failed",
     raised |-> backup # <<>> /\ ~save_config(f, backup[1], w).ret]

\* ConfigUpdater._restore_from_backup: with a backup, save_config(backup),
\* which catches the exception of a failed write, logs it and returns False;
\* with no backup, an error is logged.  Nothing is raised.
restore_attempt(f, backup, w) ==
    [file |-> IF backup = <<>> THEN f ELSE save_config(f, backup[1], w).file,
     outcome |-> IF backup = <<>> THEN "no_backup"
                 ELSE IF save_config(f, backup[1], w).ret THEN "restored" ELSE "save_failed",
     raised |-> FALSE]

\* the steps of _on_config_file_changed inside its try: get_config,
\* reload_config, _detect_changes, _add_to_history, _notify_subscribers
CycleSteps == {"backup", "apply", "diff", "append", "notify"}

\* a step of the reconciliation raises: control goes to `except Exception`
Raise(t, step) ==
    /\ pc[t] = step
    /\ frame[t].op = "_on_config_file_changed"
    /\ frame' = [frame EXCEPT ![t].failed = TRUE]
    /\ pc' = [pc EXCEPT ![t] = "restore"]
    /\ UNCHANGED manager_vars
    /\ UNCHANGED <<is_watching, timer, u_config, u_history, events, callbacks, saving>>
    /\ UNCHANGED <<lock, backup_config, backup_owner, acquired, appends, u_subscribers>>

\* the except clause: self._restore_from_backup().  An exception that it
\* raised would leave _on_config_file_changed through `with self.lock`.
Restore(t, w) ==
    /\ pc[t] = "restore"
    /\ \E r \in {restore_attempt(file, backup_config, w)} :
          /\ file' = r.file
          /\ frame' = [frame EXCEPT ![t].restore = IF r.raised THEN "raised" ELSE r.outcome]
    /\ pc' = [pc EXCEPT ![t] = "release"]
    /\ UNCHANGED <<config, change_history, subscribers, now, nops, last, prev, log, loaded, env>>
    /\ UNCHANGED <<is_watching, timer, u_config, u_history, events, callbacks, saving>>
    /\ UNCHANGED <<lock, backup_config, backup_owner, acquired, appends, u_subscribers>>

\* a step of thread t inside an operation of the ConfigUpdater
ThreadStep(t) ==
    \/ Acquire(t)
    \/ Backup(t)
    \/ ApplyImport(t)
    \/ ApplyReload(t)
    \/ Diff(t, "none")
    \/ AppendChanges(t)
    \/ NotifyChanges(t)
    \/ \E w \in WriteOutcomes : Restore(t, w)
    \/ Release(t)

NextCycle ==
    \/ Invoke(TimerThread, [NoOp EXCEPT !.op = "_on_config_file_changed"])
    \/ Invoke("request_1", [NoOp EXCEPT !.op = "import_config", !.doc = PortDoc])
    \/ \E t \in Threads : Acquire(t)
    \/ \E t \in Threads : Backup(t)
    \/ \E t \in RequestThreads : ApplyImport(t)
    \/ ApplyReload(TimerThread)
    \/ \E t \in Threads : Diff(t, "none")
    \/ \E t \in Threads : AppendChanges(t)
    \/ \E t \in Threads : NotifyChanges(t)
    \/ \E step \in CycleSteps : Raise(TimerThread, step)
    \/ \E w \in WriteOutcomes : Restore(TimerThread, w)
    \/ \E t \in Threads : Release(t)
    \/ ExternalWrite(EditedDoc)

\* some thread that is inside an operation takes a step
Progress == \E t \in Threads : ThreadStep(t)

\* while a thread can take a step, one of them is scheduled; the RLock goes
\* to a waiting thread once its holder has left
SpecCycle ==
    /\ InitWatcher
    /\ [][NextCycle]_vars
    /\ WF_vars(Progress)

-----------------------------------------------------------------------------
(* update_config calls of the ConfigUpdater followed by its                  *)
(* rollback_to_timestamp                                                     *)

UndoInputs == { <<F_temperature, T_1p5>>, <<F_temperature, T_0p3>>, <<F_port, Int_(8001)>> }

\* a call of config_updater.rollback_to_timestamp(ts): nothing to roll back,
\* or the set_value calls, save_config and the entry that records the
\* rollback; the observer reports the write
RollbackToTimestamp(ts) ==
    /\ nops <= MaxOps
    /\ ~TimerDue
    /\ \E cs \in {changes_to_rollback(u_history, ts)} :
          IF cs = <<>>
          THEN /\ last' = [NoCall EXCEPT !.op = "rollback_to_timestamp", !.ts = ts]
               /\ UNCHANGED <<u_config, backup_config, u_history, file, timer, events>>
          ELSE \E r \in {RollbackApply(u_config, file, cs, now)} :
                  /\ u_config' = r.config
                  /\ backup_config' = <<r.config>>
                  /\ u_history' = AddToHistory(u_history, rollback_change(now, ts))
                  /\ file' = r.file
                  /\ last' = [NoCall EXCEPT !.op = "rollback_to_timestamp", !.ts = ts,
                                            !.changes = <<rollback_change(now, ts)>>,
                                            !.appended = TRUE, !.wrote = TRUE]
                  /\ IF is_watching
                     THEN /\ timer' = on_file_changed(timer, config_path, now)
                          /\ events' = Append(events, [path |-> config_path, at |-> now])
                     ELSE UNCHANGED <<timer, events>>
    /\ prev' = Brief(last)
    /\ nops' = nops + 1
    /\ UNCHANGED <<config, change_history, subscribers, now, log, loaded, env>>
    /\ UNCHANGED <<is_watching, callbacks, saving, lock, pc, frame, backup_owner, acquired, appends, u_subscribers>>

NextUndo ==
    \/ \E in \in UndoInputs : UpdateConfig(in[1], in[2])
    \/ \E ts \in 0..MaxTime : RollbackToTimestamp(ts)
    \/ TimerFires("none", "ok")
    \/ Advance

SpecUndo == InitWatcher /\ [][NextUndo]_vars

-----------------------------------------------------------------------------
(* Properties *)

\* the step is a call of set_value
IsSetValueStep == nops' = nops + 1 /\ last'.op = "set_value"

\* C1: two consecutive set_value calls with the same (section, field, v), the
\* first of which changed the value, append one ConfigChange: the second call
\* succeeds with no change, appends nothing and notifies nobody.
C1_SecondSetIsNoOp ==
    ( /\ prev.op = "set_value" /\ last.op = "set_value"
      /\ prev.key \in Fields
      /\ prev.key = last.key /\ prev.value = last.value
      /\ prev.changed )
    => ( /\ last.success
         /\ last.changes = <<>>
         /\ ~last.appended
         /\ last.invoked = <<>> )

StrictlyIncreasing(lg) ==
    \A i \in 1..(Len(lg) - 1) : lg[i].change.timestamp < lg[i + 1].change.timestamp

\* C2: after value-changing set_value calls with strictly increasing timestamps,
\* rollback_to_timestamp(ti) makes the live tree equal to the tree as it was
\* right after the i-th change, whatever tree was loaded at start-up.
C2_RollbackYieldsTreeAfterChange ==
    ( /\ last.op = "rollback"
      /\ StrictlyIncreasing(log)
      /\ \A i \in 1..Len(log) :
            ~PyEq(log[i].change.old_value, log[i].change.new_value) )
    => \A i \in 1..Len(log) :
            log[i].change.timestamp = last.ts => config = log[i].tree

\* C3: the history never holds more than max_history_size entries, and
\* get_change_history() gives the most recent max_history_size changes (all of
\* them while there are fewer), in the order they were appended.
C3_HistoryBound ==
    LET h == get_change_history(change_history, NotGiven, NotGiven, NotGiven)
    IN  /\ Len(change_history) <= max_history_size
        /\ Len(h) = IF Len(log) <= max_history_size THEN Len(log) ELSE max_history_size
        /\ \A j \in 1..Len(h) : h[j] = log[Len(log) - Len(h) + j].change

\* more than max_history_size changes were made: the oldest was evicted
C3_Witness ==
    /\ Len(log) > max_history_size
    /\ Len(get_change_history(change_history, NotGiven, NotGiven, NotGiven)) = max_history_size
    /\ last.op = "set_value" /\ last.appended

\* C4: set_value with a value that converts to the field's type and violates
\* the field's declared constraint fails and leaves the live value, the
\* history and the file as they were.
C4_ConstraintViolationRejected ==
    [][ ( /\ IsSetValueStep
          /\ last'.key \in Fields
          /\ Coerce(config[last'.key], last'.value).ok
          /\ Coerce(config[last'.key], last'.value).val.t = FieldType(last'.key)
          /\ ~FieldConstraint(last'.key, Coerce(config[last'.key], last'.value).val) )
        => ( /\ ~last'.success
             /\ config' = config
             /\ change_history' = change_history
             /\ file' = file ) ]_vars

\* C5: when the file write inside set_value fails the result is a failure, so
\* a success means that the file holds the tree that memory holds.
C5_FailedWriteIsReported ==
    (last.op = "set_value" /\ last.appended)
    => ( /\ (~last.wrote => ~last.success)
         /\ (last.success => file = Doc(TomlDump(config))) )

\* C6: for a pair the schema does not declare, and any value, set_value fails
\* with a message naming the invalid path, get_value gives None, and tree,
\* history and file stay as they were.
C6_UnknownPairFails ==
    [][ (IsSetValueStep /\ last'.key \in Undeclared)
        => ( /\ ~last'.success
             /\ last'.message = "Invalid config path"
             /\ get_value(config', last'.key) = None
             /\ config' = config
             /\ change_history' = change_history
             /\ file' = file ) ]_vars

C8_SubscribersCalledOnceInOrder ==
    [][ (IsSetValueStep /\ last'.appended)
        => ( /\ last'.invoked = subscribers[last'.key]
             /\ last'.success ) ]_vars


\* the config-file events among the calls of _on_file_changed
ConfigEvents == SelectSeq(events, LAMBDA e : e.path = config_path)

\* the i-th config-file event ends a burst: the next one, if any, comes a
\* debounce interval or more after it
EndsBurst(i) ==
    i = Len(ConfigEvents) \/ ConfigEvents[i + 1].at - ConfigEvents[i].at >= debounce_interval

\* the callbacks made after the i-th config-file event and before the next one
CallbacksAfter(i) ==
    SelectSeq(callbacks, LAMBDA c :
        /\ c.at > ConfigEvents[i].at
        /\ i < Len(ConfigEvents) => c.at <= ConfigEvents[i + 1].at)

\* C9: once a burst of config-file events is over (the next burst has begun, or
\* a debounce interval has passed and no timer is pending), the callback has
\* been called exactly once after the last event of the burst, with the path
\* of that event, and not at all between two events of the burst.
C9_BurstTriggersOneCallback ==
    \A i \in 1..Len(ConfigEvents) :
        IF EndsBurst(i)
        THEN ( \/ i < Len(ConfigEvents)
               \/ (~timer.armed /\ now >= ConfigEvents[i].at + debounce_interval) )
             => ( /\ Len(CallbacksAfter(i)) = 1
                  /\ CallbacksAfter(i)[1].path = ConfigEvents[i].path )
        ELSE CallbacksAfter(i) = <<>>

\* C10: no callback is made after stop_watching has returned: every callback
\* was made while the watcher was watching.
C10_NoCallbackAfterStop ==
    \A i \in 1..Len(callbacks) : callbacks[i].watching

\* C11: a reconciliation in which _detect_changes raises ends with the live
\* tree of the updater's ConfigManager equal to the backup taken at its start.
C11_FailedCycleRestoresBackup ==
    [][ ( /\ Len(callbacks') = Len(callbacks) + 1
          /\ callbacks'[Len(callbacks')].fault = "diff" )
        => u_config' = u_config ]_vars

\* C13: a successful import_config with merge = true sets every field of the
\* imported file to the imported value and leaves every other field at the
\* value it had before the call.
C13_MergeKeepsAbsentFields ==
    [][ ( /\ nops' = nops + 1 /\ last'.op = "import" /\ last'.merge /\ last'.success )
        => \A k \in Fields :
              config'[k] = IF last'.doc.data[k] # Missing
                           THEN FieldParse(k, last'.doc.data[k]).val
                           ELSE config[k] ]_vars

\* C14: when the write fails during reset_to_defaults, the call returns false
\* and the live tree is what it was before the call.
C14_FailedResetKeepsTree ==
    [][ ( /\ nops' = nops + 1 /\ last'.op = "reset" /\ last'.w # "ok" )
        => ( /\ ~last'.success
             /\ config' = config ) ]_vars

\* C15: a tree in which backend.port equals frontend.port fails validation:
\* validate_config reports it invalid, and no load or import installs it.
C15_EqualPortsFailValidation ==
    config[F_port].n = config[F_fport].n
    => ( /\ last.op = "validate" => ~last.success
         /\ ~(last.op = "import" /\ last.success)
         /\ ~(last.op = "reload" /\ last.doc.kind = "toml") )

\* the constraints a tree has to meet: those of the fields, and the two of
\* the whole tree
MeetsConstraints(t) ==
    /\ \A k \in Fields : (t[k].t = FieldType(k) \/ (Nullable(k) /\ t[k].t = "none"))
                          /\ FieldConstraint(k, t[k])
    /\ validate_cors_with_frontend(t)
    /\ t[F_port].n # t[F_fport].n

\* C16: a tree installed by a load, an import or a rollback_to_timestamp meets
\* the field constraints and the tree-level constraints; a rollback whose
\* replayed tree violates them does not report success.
C16_ReconstructionIsValidated ==
    ( \/ last.op \in {"import", "rollback"} /\ last.success
      \/ last.op = "reload" /\ last.doc.kind = "toml" )
    => MeetsConstraints(config)

\* C17: for a valid live tree, saving it and loading the file again gives a
\* tree equal to it field for field.
C17_SaveLoadRoundTrip ==
    (validate_config(config) /\ MeetsConstraints(config))
    => load_config(save_config(file, config, "ok").file, config, "ok").config = config

\* C18: a reload_config that finds no file at the path writes the schema
\* defaults there, and the live tree afterwards is the schema defaults:
\* get_value("backend", "port") is 8000.
C18_MissingFileGivesDefaults ==
    (last.op = "reload" /\ last.doc.kind = "absent" /\ last.w = "ok")
    => ( /\ file = Doc(TomlDump(Defaults))
         /\ config = Defaults
         /\ get_value(config, F_port) = Int_(8000) )

\* C19: a load never finds the file empty or half written: every reload of
\* the reconciliation read a complete document.
C19_LoadReadsCompleteFile ==
    \A i \in 1..Len(callbacks) : callbacks[i].read = "toml"

\* the entries of the history that pass the filters of the last query
Matching ==
    SelectSeq(change_history, LAMBDA change :
        /\ last.filter[1] # NotGiven => change.section = last.filter[1][1]
        /\ last.filter[2] # NotGiven => change.field = last.filter[2][1])

\* C20: get_change_history returns the matching entries in insertion order,
\* with a limit exactly the last min(limit, m) of the m matching entries, and
\* it leaves the history as it is.
C20_HistoryQuery ==
    /\ [] ( last.op = "history" =>
              LET m == Len(Matching)
                  n == IF last.filter[3] = NotGiven \/ last.filter[3][1] > m
                       THEN m ELSE last.filter[3][1]
              IN  last.changes = SubSeq(Matching, m - n + 1, m) )
    /\ [][ last'.op = "history" => change_history' = change_history ]_vars

\* a thread is between the acquisition and the release of the lock
Inside(t) == pc[t] \in {"backup", "apply", "diff", "append", "notify", "restore", "release"}

\* C12: the backup, apply, diff and append steps of two operations of the
\* ConfigUpdater never interleave: one thread at a time is inside an
\* operation, backup_config stays the backup of the operation that is between
\* its backup and its append, and the entries of the history are in the order
\* in which their operations acquired the lock.
C12_OperationsAreSerialized ==
    /\ \A t1, t2 \in Threads : t1 # t2 => ~(Inside(t1) /\ Inside(t2))
    /\ \A t \in Threads :
          pc[t] \in {"apply", "diff", "append"} =>
             backup_owner = frame[t].id
    /\ \A i, j \in 1..Len(appends) : i < j => appends[i] <= appends[j]

\* two operations have appended to the history, and the later one found the
\* lock held by another thread when it was called
C12_Witness ==
    /\ Len(appends) >= 2
    /\ appends[1] # appends[Len(appends)]
    /\ acquired[appends[Len(appends)]].waited
    /\ acquired[appends[1]].thread # acquired[appends[Len(appends)]].thread

\* the new_value of the entry of field k with the largest timestamp <= ts (of
\* the one inserted last among equals), the schema default without such entry
ValueAsOf(h, ts, k) ==
    LET idx == {i \in 1..Len(h) : /\ h[i].section = k[1]
                                  /\ h[i].field = k[2]
                                  /\ h[i].timestamp <= ts}
        top == CHOOSE i \in idx :
                  \A j \in idx : \/ h[j].timestamp < h[i].timestamp
                                 \/ h[j].timestamp = h[i].timestamp /\ j <= i
    IN  IF idx = {} THEN Defaults[k] ELSE h[top].new_value

\* C21: the tree installed by rollback_to_timestamp(t) is the schema defaults
\* overlaid with the new_value of exactly the history entries with timestamp
\* <= t, applied in ascending timestamp order: it depends neither on the live
\* tree before the call, nor on later entries, nor on the insertion order.
C21_RollbackReplaysSortedHistory ==
    last.op = "rollback"
    => \A k \in Fields : config[k] = ValueAsOf(change_history, last.ts, k)

\* a rollback over a history whose first two entries were inserted against
\* their timestamps and which holds an entry later than the target
C21_Witness ==
    /\ last.op = "rollback"
    /\ Len(change_history) = 3
    /\ change_history[1].timestamp > change_history[2].timestamp
    /\ change_history[1].timestamp <= last.ts
    /\ change_history[3].timestamp > last.ts
    /\ change_history[3].field = "temperature"
    /\ prev.op = "set_value"

\* C22: when update_config fails after set_value has applied the new value,
\* the backup still holds the value the field had before the call, and the
\* restore leaves the live tree and the file with that value.
C22_FailedUpdateRestoresPreCall ==
    \A t \in Threads :
        frame[t].op = "update_config" =>
           /\ pc[t] \in {"diff", "append"} =>
                 PyEq(backup_config[1][frame[t].k], frame[t].old_value)
           /\ frame[t].failed =>
                 /\ PyEq(get_value(u_config, frame[t].k), frame[t].old_value)
                 /\ file.kind = "toml"
                 /\ file.data[frame[t].k] = TomlDump(frame[t].saved)[frame[t].k]

\* the environment variable mapped to field k, "" when there is none
EnvVarOf(k) ==
    IF \E i \in 1..Len(env_mappings) : env_mappings[i][2] = k
    THEN env_mappings[CHOOSE i \in 1..Len(env_mappings) : env_mappings[i][2] = k][1]
    ELSE ""

\* C28: after a load (the constructor's or a reload) of a file that parses,
\* every field whose environment variable is set to a value that can be
\* coerced holds that value, whatever the other variables are, and every field
\* whose variable is not set holds the file's value.
C28_EnvPrecedencePerField ==
    ( /\ nops = 0 \/ last.op = "reload"
      /\ file.kind = "toml"
      /\ FromData(file.data).ok )
    => \A k \in Fields :
          LET var == EnvVarOf(k)
              co == Coerce(Defaults[k], Str_(Strip(env[var].s)))
          IN  IF var = "" \/ env[var] = Missing
              THEN config[k] = FromData(file.data).tree[k]
              ELSE co.ok => config[k] = co.val

\* C23: the reconciliation that follows a successful update_config, caused by
\* the file write of that update, adds nothing to the updater's history and
\* leaves the field at the value the update set, whatever the environment.
C23_OwnWriteIsNotCountedAgain ==
    [][ ( /\ Len(callbacks') = Len(callbacks) + 1
          /\ last.op = "update_config"
          /\ last.success
          /\ last.changes # <<>> )
        => /\ u_history' = u_history
           /\ PyEq(get_value(u_config', last.key), last.changes[1].new_value) ]_vars

\* how often x is in the list xs
Count(xs, x) == Cardinality({i \in 1..Len(xs) : xs[i] = x})

\* C30: when a callback unsubscribes from its key while a change of that key
\* is delivered, every other callback subscribed to the key at the start of
\* the delivery is still called exactly once for the change.
C30_UnsubscribeDuringDelivery ==
    [][ ( /\ IsSetValueStep
          /\ last'.appended
          /\ InList(subscribers[last'.key], "cb_unsubscribes") )
        => \A cb \in Callbacks \ {"cb_unsubscribes"} :
              Count(last'.invoked, cb) = Count(subscribers[last'.key], cb) ]_vars

\* C26: when a reconciliation after a modification of the file has appended
\* changes, the module-level config_manager returns the new value of each
\* changed field from get_value and has the change in its own history.
C26_RoutesSeeReconciledTree ==
    [][ ( /\ Len(callbacks') = Len(callbacks) + 1
          /\ callbacks'[Len(callbacks')].fault = "none"
          /\ Len(u_history') > Len(u_history) )
        => \A i \in (Len(u_history) + 1)..Len(u_history') :
              LET c == u_history'[i]
              IN  /\ PyEq(get_value(config', <<c.section, c.field>>), c.new_value)
                  /\ \E j \in 1..Len(change_history') : change_history'[j] = c ]_vars

\* C25: every modification of the config file that the running watcher
\* reports is eventually followed by a call of the callback, whatever other
\* .toml files of the directory are modified in the meantime.
C25_ModificationLeadsToCallback ==
    \A i \in 1..MaxEvents :
        (Len(ConfigEvents) >= i)
        ~> ( /\ Len(ConfigEvents) >= i
             /\ \E j \in 1..Len(callbacks) : callbacks[j].at > ConfigEvents[i].at )

\* the changes of field k in the history h that are later than ts
ChangesAfter(h, ts, k) ==
    SelectSeq(h, LAMBDA c : c.timestamp > ts /\ <<c.section, c.field>> = k)

\* C29: after a rollback_to_timestamp(t) of the ConfigUpdater that rolled
\* something back, every field with history entries later than t holds the
\* old value of its earliest change after t.
C29_RollbackRestoresValueAtT ==
    [][ ( /\ nops' = nops + 1
          /\ last'.op = "rollback_to_timestamp"
          /\ last'.success
          /\ last'.changes # <<>> )
        => \A k \in Fields :
              ChangesAfter(u_history, last'.ts, k) # <<>>
              => PyEq(u_config'[k], ChangesAfter(u_history, last'.ts, k)[1].old_value) ]_vars

\* the fields in which the trees a and b differ
Differing(a, b) == {k \in Fields : ~PyEq(a[k], b[k])}

\* C24: a reconciliation in which the reloaded tree differs from the tree
\* before it in k fields appends k changes to the updater's history, one per
\* differing field with the old value, the reloaded value and the user
\* "system", and calls every subscriber of those fields once and nobody else.
C24_ReconciliationRecordsAndNotifies ==
    [][ ( /\ Len(callbacks') = Len(callbacks) + 1
          /\ callbacks'[Len(callbacks')].fault = "none" )
        => /\ Len(u_history') = Len(u_history) + Cardinality(Differing(u_config, u_config'))
           /\ \A k \in Differing(u_config, u_config') :
                 \E i \in (Len(u_history) + 1)..Len(u_history') :
                     u_history'[i] = ConfigChange(now, k, u_config[k], u_config'[k], "system")
           /\ \A k \in Fields, cb \in Callbacks :
                 Count(callbacks'[Len(callbacks')].invoked, <<k, cb>>)
                    = IF k \in Differing(u_config, u_config')
                      THEN Count(u_subscribers[k], cb) ELSE 0 ]_vars

\* C27: every reconciliation of the timer thread comes back to idle with the
\* RLock released, whatever step raises: a cycle in which a step raised has
\* attempted the restore before it leaves, and no exception leaves
\* _on_config_file_changed, also when the restore fails or no backup exists.
C27_CycleTerminatesUnlocked ==
    /\ [](\A i \in 1..Len(acquired) :
             acquired[i].op = "_on_config_file_changed"
             => acquired[i].outcome \in {"running", "returned", "restored",
                                         "save_failed", "no_backup"})
    /\ (pc[TimerThread] # "idle")
          ~> (pc[TimerThread] = "idle" /\ lock.owner # TimerThread)

C27_Witness ==
    /\ pc[TimerThread] = "idle"
    /\ lock = Unlocked
    /\ \E i \in 1..Len(acquired) :
          /\ acquired[i].op = "_on_config_file_changed"
          /\ acquired[i].outcome = "save_failed"

=============================================================================
